---- MODULE Spec2Model ----
(***************************************************************************)
(* A model of the workshop shell: the line tokenizer and chain parser, the *)
(* chain executor with its short-circuit operators, and the builtins.      *)
(* Three programs of the repository are modelled side by side:             *)
(*   "main"   - src/main.rs          (split on ';', builtins cd and exit)  *)
(*   "block2" - examples/block2.rs   (parser, chains, && and ||)           *)
(*   "block4" - examples/block4.rs   (block2 plus cd, exit and history)    *)
(* A line is a sequence of one-character strings, a token a sequence of    *)
(* characters, so that splitting, trimming and parsing are computed.       *)
(***************************************************************************)
EXTENDS Integers, Sequences, FiniteSets, TLC

\* ------------------------------------------------------------------ bounds

\* Longest line (in characters) the parser specification enumerates.
MaxLineLen == 5

\* Most command phrases on one line of the shell specification.
MaxCmds == 2
MaxLines == 2
MaxStages == 3

\* ------------------------------------------------------------ characters

Whitespace == {" ", "\n"}

\* The characters the parser specification draws lines from.
Alphabet == {"l", "&", "|", ";", " ", "\n"}

RECURSIVE SeqsUpTo(_, _)
SeqsUpTo(S, n) ==
    IF n = 0 THEN {<<>>}
    ELSE LET shorter == SeqsUpTo(S, n - 1)
         IN  shorter \cup {Append(s, c) : s \in {t \in shorter : Len(t) = n - 1}, c \in S}

\* ------------------------------------------------------------- tokenizer

\* str::split(c): the pieces between occurrences of c, empty pieces kept;
\* the empty string gives one empty piece.
RECURSIVE split(_, _)
split(s, c) ==
    IF \E i \in 1..Len(s) : s[i] = c
    THEN LET i == CHOOSE k \in 1..Len(s) : s[k] = c /\ \A j \in 1..(k - 1) : s[j] # c
         IN  <<SubSeq(s, 1, i - 1)>> \o split(SubSeq(s, i + 1, Len(s)), c)
    ELSE <<s>>

\* str::split_whitespace: the maximal runs of non-whitespace characters.
RECURSIVE split_whitespace(_)
split_whitespace(s) ==
    IF s = <<>> THEN <<>>
    ELSE IF Head(s) \in Whitespace THEN split_whitespace(Tail(s))
    ELSE LET stops == {k \in 1..Len(s) : s[k] \in Whitespace}
             n == IF stops = {} THEN Len(s)
                  ELSE (CHOOSE k \in stops : \A j \in stops : k <= j) - 1
         IN  <<SubSeq(s, 1, n)>> \o split_whitespace(SubSeq(s, n + 1, Len(s)))

\* str::trim: leading and trailing whitespace removed.
RECURSIVE trim_start(_)
trim_start(s) ==
    IF s # <<>> /\ Head(s) \in Whitespace THEN trim_start(Tail(s)) ELSE s

RECURSIVE trim_end(_)
trim_end(s) ==
    IF s # <<>> /\ s[Len(s)] \in Whitespace THEN trim_end(SubSeq(s, 1, Len(s) - 1)) ELSE s

trim(s) == trim_end(trim_start(s))

\* ---------------------------------------------------------------- parser

NoElement == [kind |-> "None"]
And == [kind |-> "And"]
Or == [kind |-> "Or"]
Cmd(binary, args) == [kind |-> "Cmd", binary |-> binary, args |-> args]

\* Element::parse_operator: the operator a token stands for, or none.
parse_operator(token) ==
    IF token = <<"&", "&">> THEN And
    ELSE IF token = <<"|", "|">> THEN Or
    ELSE NoElement

is_operator(token) == parse_operator(token) # NoElement

\* Parser::new: the segment's whitespace-separated tokens, cursor at the start
\* (the cursor counts the tokens consumed).
ParserNew(chain) == [tokens |-> split_whitespace(chain), current |-> 0]

\* Parser::parse_cmd: collects arguments up to the next operator token or the
\* end; gives the command and the advanced parser.
parse_cmd_loop_OneArg(p, args) ==
    IF p.current < Len(p.tokens) /\ ~is_operator(p.tokens[p.current + 1])
    THEN [args |-> <<p.tokens[p.current + 1]>>, parser |-> [p EXCEPT !.current = @ + 1]]
    ELSE [args |-> args, parser |-> p]
RECURSIVE parse_cmd_loop(_, _)
parse_cmd_loop(p, args) ==
    IF p.current < Len(p.tokens) /\ ~is_operator(p.tokens[p.current + 1])
    THEN parse_cmd_loop([p EXCEPT !.current = @ + 1], Append(args, p.tokens[p.current + 1]))
    ELSE [args |-> args, parser |-> p]

parse_cmd(p, binary) ==
    LET r == parse_cmd_loop(p, <<>>)
    IN  [cmd |-> Cmd(binary, r.args), parser |-> r.parser]

\* Parser::parse_next: the element at the cursor (none at the end) and the
\* advanced parser.
parse_next(p) ==
    IF p.current >= Len(p.tokens) THEN [element |-> NoElement, parser |-> p]
    ELSE LET next == p.tokens[p.current + 1]
             q == [p EXCEPT !.current = @ + 1]
         IN  IF parse_operator(next) # NoElement
             THEN [element |-> parse_operator(next), parser |-> q]
             ELSE LET r == parse_cmd(q, next)
                  IN  [element |-> r.cmd, parser |-> r.parser]

\* Parser::parse: the elements in order; <<>> stands for None (no Chain),
\* which is what an empty element list gives.
RECURSIVE parse_loop(_, _)
parse_loop(p, elements) ==
    LET r == parse_next(p)
    IN  IF r.element = NoElement THEN elements
        ELSE parse_loop(r.parser, Append(elements, r.element))

parse(p) == parse_loop(p, <<>>)

\* filter_map: the Some values, in order.
filter_map_some_KeepNone(cs) == cs
RECURSIVE filter_map_some(_)
filter_map_some(cs) ==
    IF cs = <<>> THEN <<>>
    ELSE IF Head(cs) = <<>> THEN filter_map_some(Tail(cs))
    ELSE <<Head(cs)>> \o filter_map_some(Tail(cs))

\* chains_from_line (block2, block4): one parse per ';'-separated segment.
chains_from_line(line) ==
    LET segs == split(line, ";")
    IN  filter_map_some([i \in 1..Len(segs) |-> parse(ParserNew(segs[i]))])

\* From<String> for Command (main.rs): first token the binary, the rest args.
NoBinary == <<>>
CommandFrom(value) ==
    LET toks == split_whitespace(trim(value))
    IN  IF toks = <<>> THEN [binary |-> NoBinary, args |-> <<>>]
        ELSE [binary |-> Head(toks), args |-> Tail(toks)]

\* read_line (main.rs): one Command per ';'-separated piece of the buffer.
commands_from_line(buffer) ==
    LET segs == split(buffer, ";")
    IN  [i \in 1..Len(segs) |-> CommandFrom(segs[i])]

\* ------------------------------------------------------------ vocabulary

tok_ls == <<"l", "s">>
tok_cd == <<"c", "d">>
tok_exit == <<"e", "x", "i", "t">>
tok_and == <<"&", "&">>
tok_or == <<"|", "|">>
tok_semi == <<";">>
tok_e == <<"e">>
tok_d == <<"d">>
tok_up == <<".", ".">>
tok_root == <<"/">>
tok_1 == <<"1">>
tok_history == <<"h", "i", "s", "t", "o", "r", "y">>

\* The command phrases an input line is made of; the empty phrase gives the
\* leading, trailing and adjacent operators and the empty segments, the lone
\* operator a malformed Chain next to other Chains, `ls && ls` a Chain with
\* an operator next to other Chains.
Phrases ==
    { <<>>, <<tok_and>>, <<tok_ls, tok_and, tok_ls>>,
      <<tok_ls>>,
      <<tok_cd>>, <<tok_cd, tok_e>>, <<tok_cd, tok_up>>, <<tok_cd, tok_root>>,
      <<tok_cd, tok_1>>, <<tok_cd, tok_e, tok_e>>,
      <<tok_exit>>, <<tok_exit, tok_1>>, <<tok_exit, tok_e>>,
      <<tok_history>> }

Connectors == {tok_and, tok_or, tok_semi}

\* Token sequences of exactly n phrases joined by connectors.
RECURSIVE PhraseSeqs(_)
PhraseSeqs(n) ==
    IF n = 1 THEN Phrases
    ELSE {l \o <<c>> \o p : l \in PhraseSeqs(n - 1), c \in Connectors, p \in Phrases}

\* The line read from standard input for a token sequence: the tokens
\* separated by one space, ended by the newline read_line keeps.
RECURSIVE JoinTokens(_)
JoinTokens(ts) ==
    IF ts = <<>> THEN <<>>
    ELSE IF Len(ts) = 1 THEN Head(ts)
    ELSE Head(ts) \o <<" ">> \o JoinTokens(Tail(ts))

Lines == {JoinTokens(ts) \o <<"\n">> : ts \in UNION {PhraseSeqs(n) : n \in 1..MaxCmds}}

\* At the end of the input read_line reads nothing and leaves the buffer empty.
EndOfInput == <<>>

\* ------------------------------------------------------------ file system

\* Directories are the sequences of names leading to them from the root.
Root == <<>>
Dirs == {Root, <<tok_d>>, <<tok_d, tok_e>>}
InitialDir == <<tok_d>>
NoDir == <<<<"?">>>>

\* A directory outside the tree `cd` walks, for a history file named by an
\* absolute path; the user cannot create files in the root directory.
TmpDir == <<<<"t">>>>
Writable == (Dirs \ {Root}) \cup {TmpDir}

\* PathBuf::from: whether the path is absolute, and its components.
PathFrom(token) ==
    [abs |-> token # <<>> /\ Head(token) = "/",
     comps |-> SelectSeq(split(token, "/"), LAMBDA c : c # <<>>),
     empty |-> token = <<>>]

\* Path::join: an absolute argument replaces the base.
PathJoin_Concat(base, p) ==
    [abs |-> base.abs, comps |-> base.comps \o p.comps, empty |-> base.empty /\ p.empty]
PathJoin(base, p) ==
    IF p.abs THEN p
    ELSE [abs |-> base.abs, comps |-> base.comps \o p.comps, empty |-> base.empty /\ p.empty]

DirPath(dir) == [abs |-> TRUE, comps |-> dir, empty |-> FALSE]

\* The directory a path names, walked from `from` one component at a time
\* as the operating system does, or NoDir.
RECURSIVE Walk(_, _)
Walk(from, comps) ==
    IF from = NoDir \/ comps = <<>> THEN from
    ELSE LET c == Head(comps)
             to == IF c = <<".">> THEN from
                   ELSE IF c = tok_up
                        THEN (IF from = Root THEN Root ELSE SubSeq(from, 1, Len(from) - 1))
                   ELSE IF Append(from, c) \in Dirs THEN Append(from, c)
                   ELSE NoDir
         IN  Walk(to, Tail(comps))

\* std::env::set_current_dir from working directory `dir`: the new working
\* directory, or NoDir when the change fails.
set_current_dir(dir, path) ==
    IF path.empty THEN NoDir
    ELSE Walk(IF path.abs THEN Root ELSE dir, path.comps)

\* ------------------------------------------------------------ str::parse

I32Max == 2147483647

Digits == {"0", "1", "2", "3", "4", "5", "6", "7", "8", "9"}

DigitVal(c) ==
    CASE c = "0" -> 0 [] c = "1" -> 1 [] c = "2" -> 2 [] c = "3" -> 3 [] c = "4" -> 4
      [] c = "5" -> 5 [] c = "6" -> 6 [] c = "7" -> 7 [] c = "8" -> 8 [] c = "9" -> 9

RECURSIVE DecimalVal(_)
DecimalVal(ds) ==
    IF ds = <<>> THEN 0 ELSE 10 * DecimalVal(SubSeq(ds, 1, Len(ds) - 1)) + DigitVal(ds[Len(ds)])

\* str::parse::<i32>: an optional sign, then at least one digit, in range.
ParseI32(token) ==
    LET signed == token # <<>> /\ Head(token) \in {"+", "-"}
        ds == IF signed THEN Tail(token) ELSE token
        v == IF signed /\ Head(token) = "-" THEN 0 - DecimalVal(ds) ELSE DecimalVal(ds)
    IN  IF ds = <<>> \/ (\E i \in 1..Len(ds) : ds[i] \notin Digits) THEN [ok |-> FALSE, val |-> 0]
        ELSE IF v > I32Max \/ v < 0 - I32Max - 1 THEN [ok |-> FALSE, val |-> 0]
        ELSE [ok |-> TRUE, val |-> v]

\* ------------------------------------------------------------ shell state

VARIABLES
    prog,         \* which program runs: "main", "block2" or "block4"
    pc,           \* "prompt" (top of the main loop), "running", "exited", "panicked"
    chains,       \* block2/block4: the Chains of the line being executed
    ci,           \* index of the Chain being run (0 at the prompt)
    commands,     \* main: the Commands of the line being executed
    pos,          \* elements of the current Chain (Commands of the line) already taken
    prev_output,  \* Chain::run's prev_output
    brk,          \* position of the operator at which Chain::run left its loop, or 0
    ran,          \* the commands executed in the current Chain (line, for main), in order
    cwd,          \* the working directory of the shell process
    exit_status,  \* the status passed to process::exit (read once pc = "exited")
    panic,        \* the message of the panic that ended the process, or ""
    stderr,       \* what the last step wrote to standard error, or ""
    stdout,       \* the history records the last step wrote to standard output
    nread,        \* the calls of read_line that have returned
    nlines,       \* those of them that returned a line (the others met the end of the input)
    history_path, \* block4: History::history_path
    history,      \* the records of the history file of each directory, <<>> for no file
    procs,        \* block5: the processes spawned for the pipeline being executed
    waited,       \* block5: how many of them the executor has waited for
    pline,        \* parser specification: the line
    pstage,       \* parser specification: "line", "chains" or "commands"
    pchains,      \* parser specification: chains_from_line(pline)
    pcommands     \* parser specification: commands_from_line(pline)

logvars == <<nread, nlines, history_path, history>>
pipevars == <<procs, waited>>
shellvars == <<prog, pc, chains, ci, commands, pos, prev_output, brk, ran, cwd,
               exit_status, panic, stderr, stdout, logvars, pipevars>>
pvars == <<pline, pstage, pchains, pcommands>>
vars == <<shellvars, pvars>>

Progs == {"main", "block2", "block4"}

NoOutput == [some |-> FALSE]
SomeOutput(status) == [some |-> TRUE, status |-> status]

\* ExitStatus::success
success(status) == status = 0

\* What running an external binary can give: the spawn fails, or the child
\* runs and ends with a status.
Statuses == {0, 1}
Spawned(status) == [spawned |-> TRUE, status |-> status]
NotSpawned == [spawned |-> FALSE, status |-> 0]
Outcomes == {NotSpawned} \cup {Spawned(s) : s \in Statuses}

\* The Chain being run and its next element.
CurChain == chains[ci]
CurElement == CurChain[pos + 1]
CurCommand == commands[pos + 1]

InLoop == pc = "running" /\ prog \in {"block2", "block4"} /\ brk = 0 /\ pos < Len(CurChain)

\* The record of one executed command: its place, how it ended ("exit" with a
\* status, "nospawn", or a builtin's "ok" / "error") and the directory it ran in.
Ran(cmd, how, status, dir) ==
    [idx |-> pos + 1, binary |-> cmd.binary, args |-> cmd.args,
     how |-> how, status |-> status, dir |-> dir]
RanExternal(cmd, out, dir) ==
    Ran(cmd, IF out.spawned THEN "exit" ELSE "nospawn", out.status, dir)

\* ---------------------------------------------------------------- history

\* History::new: the path is HISTORY_PATH of the environment if it is set
\* (here to a file of TmpDir), else the relative DEFAULT_HISTORY_PATH.
DEFAULT_HISTORY_PATH == ".history"
HistoryPaths == {DEFAULT_HISTORY_PATH, "/t/.history"}

\* The directory whose history file the path names: a relative path is
\* resolved against the working directory each time the file is opened.
HistoryDir(path, dir) == IF path = DEFAULT_HISTORY_PATH THEN dir ELSE TmpDir

NoFile == <<>>

\* History::add: open the file with create and append, write one record. A
\* record is named by the number of the read that gave it; its text, the
\* trimmed line, is never read back by the shell except to print it.
HistoryAdd(files, dir, record) == [files EXCEPT ![dir] = Append(@, record)]

\* History::run: read_to_string of the file; no file is the error.
HistoryRun(files, dir) == [ok |-> files[dir] # NoFile, stdout |-> files[dir]]

\* What read_line can return next: once the end of the input is met, every
\* later read meets it again.
Input == IF nread > nlines THEN {EndOfInput} ELSE Lines \cup {EndOfInput}

LogInit ==
    /\ procs = <<>>
    /\ waited = 0
    /\ stdout = <<>>
    /\ nread = 0
    /\ nlines = 0
    /\ history = [dir \in Dirs \cup {TmpDir} |-> NoFile]

ShellInit ==
    /\ prog \in Progs
    /\ history_path \in (IF prog = "block4" THEN HistoryPaths ELSE {DEFAULT_HISTORY_PATH})
    /\ LogInit
    /\ pc = "prompt"
    /\ chains = <<>>
    /\ ci = 0
    /\ commands = <<>>
    /\ pos = 0
    /\ prev_output = NoOutput
    /\ brk = 0
    /\ ran = <<>>
    /\ cwd = InitialDir
    /\ exit_status = 0
    /\ panic = ""
    /\ stderr = ""

ParserIdle ==
    /\ pline = <<>>
    /\ pstage = "off"
    /\ pchains = <<>>
    /\ pcommands = <<>>

Init == ShellInit /\ ParserIdle

\* ------------------------------------------------------- block2 / block4

\* main (block2, block4): one pass of the loop up to the first chain.run();
\* Chain::run starts with prev_output = None. block4 first appends the line
\* to the history file and panics if the file cannot be opened.
ReadLine ==
    /\ pc = "prompt"
    /\ prog \in {"block2", "block4"}
    /\ nread < MaxLines
    /\ \E line \in Input :
         /\ nread' = nread + 1
         /\ nlines' = IF line = EndOfInput THEN nlines ELSE nlines + 1
         /\ IF prog = "block4" /\ HistoryDir(history_path, cwd) \notin Writable
            THEN /\ pc' = "panicked"
                 /\ panic' = "Cannot open history file"
                 /\ UNCHANGED <<chains, ci, history>>
            ELSE /\ history' = IF prog = "block4"
                               THEN HistoryAdd(history, HistoryDir(history_path, cwd), nread + 1)
                               ELSE history
                 /\ chains' = chains_from_line(line)
                 /\ pc' = IF chains' = <<>> THEN "prompt" ELSE "running"
                 /\ ci' = IF chains' = <<>> THEN 0 ELSE 1
                 /\ panic' = panic
    /\ pos' = 0
    /\ prev_output' = NoOutput
    /\ brk' = 0
    /\ ran' = <<>>
    /\ stderr' = ""
    /\ stdout' = <<>>
    /\ UNCHANGED <<prog, commands, cwd, exit_status, history_path, pvars, pipevars>>

\* Cmd::run (block2): spawn the binary and wait for it; a spawn error is
\* printed and gives None.
Block2CmdRun_Twice ==
    /\ InLoop
    /\ prog = "block2"
    /\ CurElement.kind = "Cmd"
    /\ \E out \in Outcomes :
         /\ prev_output' = IF out.spawned THEN SomeOutput(out.status) ELSE NoOutput
         /\ stderr' = IF out.spawned THEN "" ELSE "spawn error"
         /\ ran' = ran \o <<RanExternal(CurElement, out, cwd), RanExternal(CurElement, out, cwd)>>
    /\ pos' = pos + 1
    /\ stdout' = <<>>
    /\ UNCHANGED <<prog, pc, chains, ci, commands, brk, cwd, exit_status, panic, logvars, pvars, pipevars>>
Block2CmdRun ==
    /\ InLoop
    /\ prog = "block2"
    /\ CurElement.kind = "Cmd"
    /\ \E out \in Outcomes :
         /\ prev_output' = IF out.spawned THEN SomeOutput(out.status) ELSE NoOutput
         /\ stderr' = IF out.spawned THEN "" ELSE "spawn error"
         /\ ran' = Append(ran, RanExternal(CurElement, out, cwd))
    /\ pos' = pos + 1
    /\ stdout' = <<>>
    /\ UNCHANGED <<prog, pc, chains, ci, commands, brk, cwd, exit_status, panic, logvars, pvars, pipevars>>

\* builtins::Cd::run: the new working directory, or NoDir for the error.
CdRun_RootOnError(dir, arg) ==
    IF set_current_dir(dir, PathFrom(arg)) = NoDir THEN Root
    ELSE set_current_dir(dir, PathFrom(arg))
CdRun(dir, arg) == set_current_dir(dir, PathFrom(arg))

\* The status Cmd::run (block4) hands to builtins::Exit.
ExitArg(args) ==
    IF args = <<>> THEN 0
    ELSE IF ParseI32(args[1]).ok THEN ParseI32(args[1]).val ELSE 0

\* Cmd::run (block4), binary "cd": no argument returns None at once;
\* otherwise Cd::run on the first argument, its error printed.
Block4Cd ==
    /\ InLoop
    /\ prog = "block4"
    /\ CurElement.kind = "Cmd"
    /\ CurElement.binary = tok_cd
    /\ LET args == CurElement.args
           to == IF args = <<>> THEN cwd ELSE CdRun(cwd, args[1])
       IN  /\ cwd' = IF to = NoDir THEN cwd ELSE to
           /\ stderr' = IF to = NoDir THEN "Error: cd" ELSE ""
           /\ ran' = Append(ran, Ran(CurElement, IF to = NoDir THEN "error" ELSE "ok", 0, cwd))
    /\ prev_output' = NoOutput
    /\ pos' = pos + 1
    /\ stdout' = <<>>
    /\ UNCHANGED <<prog, pc, chains, ci, commands, brk, exit_status, panic, logvars, pvars, pipevars>>

\* Cmd::run (block4), binary "exit": builtins::Exit::run ends the process.
Block4Exit_Returns ==
    /\ InLoop
    /\ prog = "block4"
    /\ CurElement.kind = "Cmd"
    /\ CurElement.binary = tok_exit
    /\ exit_status' = ExitArg(CurElement.args)
    /\ pos' = pos + 1
    /\ prev_output' = NoOutput
    /\ stderr' = ""
    /\ stdout' = <<>>
    /\ UNCHANGED <<prog, pc, chains, ci, commands, brk, ran, cwd, panic, logvars, pvars, pipevars>>
Block4Exit ==
    /\ InLoop
    /\ prog = "block4"
    /\ CurElement.kind = "Cmd"
    /\ CurElement.binary = tok_exit
    /\ pc' = "exited"
    /\ exit_status' = ExitArg(CurElement.args)
    /\ stderr' = ""
    /\ stdout' = <<>>
    /\ UNCHANGED <<prog, chains, ci, commands, pos, prev_output, brk, ran, cwd, panic, logvars, pvars, pipevars>>

\* Cmd::run (block4), any other binary: run_external; the result is printed
\* (output or error) and Cmd::run returns None.
Block4External ==
    /\ InLoop
    /\ prog = "block4"
    /\ CurElement.kind = "Cmd"
    /\ CurElement.binary \notin {tok_cd, tok_exit, tok_history}
    /\ \E out \in Outcomes :
         /\ stderr' = IF out.spawned THEN "" ELSE "Error: spawn"
         /\ ran' = Append(ran, RanExternal(CurElement, out, cwd))
    /\ prev_output' = NoOutput
    /\ pos' = pos + 1
    /\ stdout' = <<>>
    /\ UNCHANGED <<prog, pc, chains, ci, commands, brk, cwd, exit_status, panic, logvars, pvars, pipevars>>

\* Cmd::run (block4), binary "history": History::new().run(); the file is
\* printed, or the error; Cmd::run returns None.
Block4History ==
    /\ InLoop
    /\ prog = "block4"
    /\ CurElement.kind = "Cmd"
    /\ CurElement.binary = tok_history
    /\ LET out == HistoryRun(history, HistoryDir(history_path, cwd))
       IN  /\ stdout' = IF out.ok THEN out.stdout ELSE <<>>
           /\ stderr' = IF out.ok THEN "" ELSE "Error: history"
           /\ ran' = Append(ran, Ran(CurElement, IF out.ok THEN "ok" ELSE "error", 0, cwd))
    /\ prev_output' = NoOutput
    /\ pos' = pos + 1
    /\ UNCHANGED <<prog, pc, chains, ci, commands, brk, cwd, exit_status, panic, logvars, pvars, pipevars>>

\* Chain::run, Element::And: `if !status.success() { break; }`.
AndBreaks_Flipped(status) == success(status)
AndBreaks(status) == ~success(status)

\* Chain::run, Element::Or: `if status.success() { break; }`.
OrBreaks_Flipped(status) == ~success(status)
OrBreaks(status) == success(status)

\* Chain::run, Element::And.
ChainAnd ==
    /\ InLoop
    /\ CurElement = And
    /\ IF ~prev_output.some
       THEN /\ pc' = "panicked"
            /\ panic' = "no command before &&"
            /\ UNCHANGED <<pos, prev_output, brk>>
       ELSE /\ pos' = pos + 1
            /\ brk' = IF AndBreaks(prev_output.status) THEN pos + 1 ELSE 0
            /\ prev_output' = NoOutput
            /\ UNCHANGED <<pc, panic>>
    /\ stderr' = ""
    /\ stdout' = <<>>
    /\ UNCHANGED <<prog, chains, ci, commands, ran, cwd, exit_status, logvars, pvars, pipevars>>

\* Chain::run, Element::Or.
ChainOr ==
    /\ InLoop
    /\ CurElement = Or
    /\ IF ~prev_output.some
       THEN /\ pc' = "panicked"
            /\ panic' = "no command before ||"
            /\ UNCHANGED <<pos, prev_output, brk>>
       ELSE /\ pos' = pos + 1
            /\ brk' = IF OrBreaks(prev_output.status) THEN pos + 1 ELSE 0
            /\ prev_output' = NoOutput
            /\ UNCHANGED <<pc, panic>>
    /\ stderr' = ""
    /\ stdout' = <<>>
    /\ UNCHANGED <<prog, chains, ci, commands, ran, cwd, exit_status, logvars, pvars, pipevars>>

\* Chain::run returns (its elements are used up, or it broke out of the
\* loop); main goes on to the next Chain or back to the prompt.
ChainEnd_AbortsLine ==
    /\ pc = "running"
    /\ prog \in {"block2", "block4"}
    /\ brk # 0 \/ pos = Len(CurChain)
    /\ IF ci < Len(chains) /\ brk = 0
       THEN /\ ci' = ci + 1
            /\ UNCHANGED <<pc, chains>>
       ELSE /\ ci' = 0
            /\ pc' = "prompt"
            /\ chains' = <<>>
    /\ pos' = 0
    /\ prev_output' = NoOutput
    /\ brk' = 0
    /\ ran' = <<>>
    /\ stderr' = ""
    /\ stdout' = <<>>
    /\ UNCHANGED <<prog, commands, cwd, exit_status, panic, logvars, pvars, pipevars>>
ChainEnd ==
    /\ pc = "running"
    /\ prog \in {"block2", "block4"}
    /\ brk # 0 \/ pos = Len(CurChain)
    /\ IF ci < Len(chains)
       THEN /\ ci' = ci + 1
            /\ UNCHANGED <<pc, chains>>
       ELSE /\ ci' = 0
            /\ pc' = "prompt"
            /\ chains' = <<>>
    /\ pos' = 0
    /\ prev_output' = NoOutput
    /\ brk' = 0
    /\ ran' = <<>>
    /\ stderr' = ""
    /\ stdout' = <<>>
    /\ UNCHANGED <<prog, commands, cwd, exit_status, panic, logvars, pvars, pipevars>>

\* ------------------------------------------------------------------ main

\* main (main.rs): show_prompt and read_line.
MainReadLine ==
    /\ pc = "prompt"
    /\ prog = "main"
    /\ nread < MaxLines
    /\ \E line \in Input :
         /\ nread' = nread + 1
         /\ nlines' = IF line = EndOfInput THEN nlines ELSE nlines + 1
         /\ commands' = commands_from_line(line)
    /\ pc' = "running"
    /\ pos' = 0
    /\ ran' = <<>>
    /\ stderr' = ""
    /\ stdout' = <<>>
    /\ UNCHANGED <<prog, chains, ci, prev_output, brk, cwd, exit_status, panic,
                   history_path, history, pvars, pipevars>>

InCommands == pc = "running" /\ prog = "main" /\ pos < Len(commands)

\* Command::run with no binary: nothing happens.
MainNoBinary ==
    /\ InCommands
    /\ CurCommand.binary = NoBinary
    /\ pos' = pos + 1
    /\ stderr' = ""
    /\ stdout' = <<>>
    /\ UNCHANGED <<prog, pc, chains, ci, commands, prev_output, brk, ran, cwd,
                   exit_status, panic, logvars, pvars, pipevars>>

\* Command::cd: with exactly one argument, change to the working directory
\* joined with it and print the error if that fails; otherwise print the
\* usage error.
MainCd ==
    /\ InCommands
    /\ CurCommand.binary = tok_cd
    /\ LET args == CurCommand.args
           to == IF Len(args) = 1
                 THEN set_current_dir(cwd, PathJoin(DirPath(cwd), PathFrom(args[1])))
                 ELSE NoDir
       IN  /\ cwd' = IF to = NoDir THEN cwd ELSE to
           /\ stderr' = IF Len(args) # 1 THEN "Expected exactly one argument"
                        ELSE IF to = NoDir THEN "cd error" ELSE ""
           /\ ran' = Append(ran, Ran(CurCommand, IF to = NoDir THEN "error" ELSE "ok", 0, cwd))
    /\ pos' = pos + 1
    /\ stdout' = <<>>
    /\ UNCHANGED <<prog, pc, chains, ci, commands, prev_output, brk, exit_status, panic, logvars, pvars, pipevars>>

\* Command::run, binary "exit": process::exit(0).
MainExit ==
    /\ InCommands
    /\ CurCommand.binary = tok_exit
    /\ pc' = "exited"
    /\ exit_status' = 0
    /\ stderr' = ""
    /\ stdout' = <<>>
    /\ UNCHANGED <<prog, chains, ci, commands, pos, prev_output, brk, ran, cwd, panic, logvars, pvars, pipevars>>

\* Command::run, any other binary: run it and wait; an error of status()
\* panics through expect.
MainExternal ==
    /\ InCommands
    /\ CurCommand.binary \notin {NoBinary, tok_cd, tok_exit}
    /\ \E out \in Outcomes :
         IF ~out.spawned
         THEN /\ pc' = "panicked"
              /\ panic' = "Error while running process"
              /\ UNCHANGED <<pos, ran>>
         ELSE /\ pos' = pos + 1
              /\ ran' = Append(ran, RanExternal(CurCommand, out, cwd))
              /\ UNCHANGED <<pc, panic>>
    /\ stderr' = ""
    /\ stdout' = <<>>
    /\ UNCHANGED <<prog, chains, ci, commands, prev_output, brk, cwd, exit_status, logvars, pvars, pipevars>>

\* The for loop over the line's Commands is done: back to the prompt.
MainEnd ==
    /\ pc = "running"
    /\ prog = "main"
    /\ pos = Len(commands)
    /\ pc' = "prompt"
    /\ commands' = <<>>
    /\ pos' = 0
    /\ ran' = <<>>
    /\ stderr' = ""
    /\ stdout' = <<>>
    /\ UNCHANGED <<prog, chains, ci, prev_output, brk, cwd, exit_status, panic, logvars, pvars, pipevars>>

Next ==
    \/ ReadLine
    \/ Block2CmdRun
    \/ Block4Cd
    \/ Block4Exit
    \/ Block4External
    \/ Block4History
    \/ ChainAnd
    \/ ChainOr
    \/ ChainEnd
    \/ MainReadLine
    \/ MainNoBinary
    \/ MainCd
    \/ MainExit
    \/ MainExternal
    \/ MainEnd

Spec == Init /\ [][Next]_vars

\* ------------------------------------------------- parser specification

ParseLines == SeqsUpTo(Alphabet, MaxLineLen)

\* The shell stands still while the parser is exercised.
ShellIdle ==
    /\ prog = "block2"
    /\ history_path = DEFAULT_HISTORY_PATH
    /\ LogInit
    /\ pc = "prompt"
    /\ chains = <<>>
    /\ ci = 0
    /\ commands = <<>>
    /\ pos = 0
    /\ prev_output = NoOutput
    /\ brk = 0
    /\ ran = <<>>
    /\ cwd = InitialDir
    /\ exit_status = 0
    /\ panic = ""
    /\ stderr = ""

ParseInit ==
    /\ ShellIdle
    /\ pline \in ParseLines
    /\ pstage = "line"
    /\ pchains = <<>>
    /\ pcommands = <<>>

ParseChains ==
    /\ pstage = "line"
    /\ pstage' = "chains"
    /\ pchains' = chains_from_line(pline)
    /\ UNCHANGED <<pline, pcommands, shellvars>>

ParseCommands ==
    /\ pstage = "line"
    /\ pstage' = "commands"
    /\ pcommands' = commands_from_line(pline)
    /\ UNCHANGED <<pline, pchains, shellvars>>

ParseNext == ParseChains \/ ParseCommands

ParseSpec == ParseInit /\ [][ParseNext]_vars

\* ====================================================== pipelines (block5)

\* tests/all/block5.rs runs the example block5, the shell with pipelines; its
\* source is not in the tree. Its parser and executor are written here from
\* sections 4.2 and 4.4 of the specification; the commands it runs are
\* external ones, and its input lines come without the end of the input.

Pipe == [kind |-> "Pipe"]

tok_pipe == <<"|">>
tok_echo == <<"e", "c", "h", "o">>
tok_hello == <<"h", "e", "l", "l", "o">>
tok_wc == <<"w", "c">>
tok_c == <<"-", "c">>
tok_false == <<"f", "a", "l", "s", "e">>

\* Section 4.2: the operator literals are `&&`, `||` and `|`.
parse_operator5_NoPipe(token) == parse_operator(token)
parse_operator5(token) == IF token = tok_pipe THEN Pipe ELSE parse_operator(token)

\* The number of tokens at the head of `tokens` that are no operator.
RECURSIVE ArgCount(_)
ArgCount(tokens) ==
    IF tokens = <<>> \/ parse_operator5(Head(tokens)) # NoElement THEN 0
    ELSE 1 + ArgCount(Tail(tokens))

\* Section 4.2, parse: an operator token gives its element; any other token
\* is the binary of a Command that takes the tokens up to the next operator
\* or the end as its arguments.
RECURSIVE parse5(_)
parse5(tokens) ==
    IF tokens = <<>> THEN <<>>
    ELSE IF parse_operator5(Head(tokens)) # NoElement
    THEN <<parse_operator5(Head(tokens))>> \o parse5(Tail(tokens))
    ELSE LET n == ArgCount(Tail(tokens))
         IN  <<Cmd(Head(tokens), SubSeq(tokens, 2, n + 1))>>
                 \o parse5(SubSeq(tokens, n + 2, Len(tokens)))

\* Section 4.2, edge cases: a Chain that begins or ends with an operator, or
\* has two operators with no Command between them, is a parse error.
Malformed5(chain) ==
    /\ chain # <<>>
    /\ \/ chain[1].kind # "Cmd"
       \/ chain[Len(chain)].kind # "Cmd"
       \/ \E i \in 1..(Len(chain) - 1) : chain[i].kind # "Cmd" /\ chain[i + 1].kind # "Cmd"

\* Section 4.1 and 4.2: one Chain for each segment that holds a token.
chains_from_line5(line) ==
    LET segs == split(line, ";")
    IN  filter_map_some([k \in 1..Len(segs) |-> parse5(split_whitespace(segs[k]))])

\* The input lines of block5: up to MaxStages phrases joined by connectors.
PipePhrases == { <<>>, <<tok_echo, tok_hello>>, <<tok_wc, tok_c>>, <<tok_false>> }
PipeConnectors == {tok_pipe, tok_and, tok_or, tok_semi}

RECURSIVE PipePhraseSeqs(_)
PipePhraseSeqs(n) ==
    IF n = 1 THEN PipePhrases
    ELSE {l \o <<c>> \o p : l \in PipePhraseSeqs(n - 1), c \in PipeConnectors, p \in PipePhrases}

PipeLines ==
    {JoinTokens(ts) \o <<"\n">> : ts \in UNION {PipePhraseSeqs(n) : n \in 1..MaxStages}}

\* The external commands of the vocabulary: `echo` writes its arguments and
\* a newline, `wc -c` the number of bytes of its standard input and a
\* newline, `false` nothing; only `wc` reads its standard input, to its end.
DigitChar(d) == <<"0", "1", "2", "3", "4", "5", "6", "7", "8", "9">>[d + 1]

RECURSIVE ToDecimal(_)
ToDecimal(n) ==
    IF n < 10 THEN <<DigitChar(n)>> ELSE ToDecimal(n \div 10) \o <<DigitChar(n % 10)>>

ReadsStdin(binary) == binary = tok_wc

ProcessStdout(binary, args, stdin) ==
    IF binary = tok_echo THEN JoinTokens(args) \o <<"\n">>
    ELSE IF binary = tok_wc THEN ToDecimal(Len(stdin)) \o <<"\n">>
    ELSE <<>>

ProcessStatus(binary) == IF binary = tok_false THEN 1 ELSE 0

\* What is left on the standard input of the shell for a first stage that
\* reads it.
ShellStdin == <<>>

InLoop5 ==
    /\ pc = "running"
    /\ prog = "block5"
    /\ ~Malformed5(CurChain)
    /\ brk = 0
    /\ pos < Len(CurChain)

\* Section 4.4, Pipe: the number of Commands of the pipeline that starts at
\* element i of the Chain (1 for a Command on its own).
RECURSIVE Stages(_, _)
Stages(chain, i) ==
    IF i > Len(chain) \/ chain[i].kind # "Cmd" THEN 0
    ELSE IF i + 1 <= Len(chain) /\ chain[i + 1] = Pipe THEN 1 + Stages(chain, i + 2)
    ELSE 1

PipelineLen == Stages(CurChain, pos + 1)
Stage(k) == CurChain[pos + 2 * k - 1]

\* A process of the pipeline: what it read and wrote is known once it is done.
Spawn(cmd) ==
    [binary |-> cmd.binary, args |-> cmd.args, done |-> FALSE,
     stdin |-> <<>>, stdout |-> <<>>, status |-> 0]

\* The standard input of stage k: the shell's for the first stage, the
\* standard output of the stage before for the others.
StdinOf(ps, k) == IF k = 1 THEN ShellStdin ELSE ps[k - 1].stdout

Exited(ps, k) ==
    [ps[k] EXCEPT !.done = TRUE,
                  !.stdin = IF ReadsStdin(ps[k].binary) THEN StdinOf(ps, k) ELSE <<>>,
                  !.stdout = ProcessStdout(ps[k].binary, ps[k].args, StdinOf(ps, k)),
                  !.status = ProcessStatus(ps[k].binary)]

other5 == <<prog, commands, cwd, exit_status, panic, logvars, pvars>>

B5ReadLine ==
    /\ pc = "prompt"
    /\ prog = "block5"
    /\ nread < MaxLines
    /\ \E line \in PipeLines :
         /\ chains' = chains_from_line5(line)
         /\ pc' = IF chains' = <<>> THEN "prompt" ELSE "running"
         /\ ci' = IF chains' = <<>> THEN 0 ELSE 1
    /\ nread' = nread + 1
    /\ nlines' = nlines + 1
    /\ pos' = 0
    /\ prev_output' = NoOutput
    /\ brk' = 0
    /\ ran' = <<>>
    /\ stderr' = ""
    /\ stdout' = <<>>
    /\ UNCHANGED <<prog, commands, cwd, exit_status, panic, history_path, history, pvars, pipevars>>

\* Section 4.4, Pipe: the processes of the pipeline are spawned, in order.
B5Spawn ==
    /\ InLoop5
    /\ CurElement.kind = "Cmd"
    /\ Len(procs) < PipelineLen
    /\ procs' = Append(procs, Spawn(Stage(Len(procs) + 1)))
    /\ stderr' = ""
    /\ stdout' = <<>>
    /\ UNCHANGED <<pc, chains, ci, pos, prev_output, brk, ran, waited, other5>>

\* A spawned process ends; one that reads its standard input ends after the
\* stage that writes to it.
B5ProcExit ==
    /\ prog = "block5"
    /\ \E k \in 1..Len(procs) :
         /\ ~procs[k].done
         /\ (ReadsStdin(procs[k].binary) /\ k > 1) => procs[k - 1].done
         /\ procs' = [procs EXCEPT ![k] = Exited(procs, k)]
    /\ UNCHANGED <<pc, chains, ci, pos, prev_output, brk, ran, stderr, stdout, waited, other5>>

\* Section 4.4 and 5: with the whole pipeline spawned, the executor waits
\* for its processes, one after the other.
B5Wait_Eager ==
    /\ InLoop5
    /\ waited < Len(procs)
    /\ procs[waited + 1].done
    /\ waited' = waited + 1
    /\ UNCHANGED <<pc, chains, ci, pos, prev_output, brk, ran, stderr, stdout, procs, other5>>
B5Wait ==
    /\ InLoop5
    /\ Len(procs) = PipelineLen
    /\ waited < Len(procs)
    /\ procs[waited + 1].done
    /\ waited' = waited + 1
    /\ UNCHANGED <<pc, chains, ci, pos, prev_output, brk, ran, stderr, stdout, procs, other5>>

\* Section 4.4: with every process waited for, the pipeline is complete; the
\* last stage wrote to the standard output of the shell, and its status is
\* the most recent outcome.
B5PipelineDone ==
    /\ InLoop5
    /\ CurElement.kind = "Cmd"
    /\ Len(procs) = PipelineLen
    /\ waited = PipelineLen
    /\ prev_output' = SomeOutput(procs[Len(procs)].status)
    /\ stdout' = procs[Len(procs)].stdout
    /\ stderr' = ""
    /\ ran' = ran \o [k \in 1..Len(procs) |->
                        [idx |-> pos + 2 * k - 1, binary |-> procs[k].binary,
                         args |-> procs[k].args, stdin |-> procs[k].stdin,
                         stdout |-> procs[k].stdout, status |-> procs[k].status]]
    /\ pos' = pos + 2 * PipelineLen - 1
    /\ procs' = <<>>
    /\ waited' = 0
    /\ UNCHANGED <<pc, chains, ci, brk, other5>>

\* Section 4.4, And / Or: go on or leave the Chain by the most recent
\* outcome, and clear it.
B5Operator ==
    /\ InLoop5
    /\ CurElement.kind \in {"And", "Or"}
    /\ brk' = IF (IF CurElement = And THEN AndBreaks(prev_output.status)
                  ELSE OrBreaks(prev_output.status))
              THEN pos + 1 ELSE 0
    /\ pos' = pos + 1
    /\ prev_output' = NoOutput
    /\ stderr' = ""
    /\ stdout' = <<>>
    /\ UNCHANGED <<pc, chains, ci, ran, pipevars, other5>>

\* The Chain is done, was left, or is malformed (the parse error is reported
\* and nothing of it is executed): on to the next Chain or to the prompt.
B5ChainEnd ==
    /\ pc = "running"
    /\ prog = "block5"
    /\ Malformed5(CurChain) \/ brk # 0 \/ pos = Len(CurChain)
    /\ IF ci < Len(chains)
       THEN /\ ci' = ci + 1
            /\ UNCHANGED <<pc, chains>>
       ELSE /\ ci' = 0
            /\ pc' = "prompt"
            /\ chains' = <<>>
    /\ stderr' = IF Malformed5(CurChain) THEN "parse error" ELSE ""
    /\ pos' = 0
    /\ prev_output' = NoOutput
    /\ brk' = 0
    /\ ran' = <<>>
    /\ stdout' = <<>>
    /\ UNCHANGED <<pipevars, other5>>

PipeInit ==
    /\ prog = "block5"
    /\ history_path = DEFAULT_HISTORY_PATH
    /\ LogInit
    /\ pc = "prompt"
    /\ chains = <<>>
    /\ ci = 0
    /\ commands = <<>>
    /\ pos = 0
    /\ prev_output = NoOutput
    /\ brk = 0
    /\ ran = <<>>
    /\ cwd = InitialDir
    /\ exit_status = 0
    /\ panic = ""
    /\ stderr = ""
    /\ ParserIdle

PipeNext ==
    \/ B5ReadLine
    \/ B5Spawn
    \/ B5ProcExit
    \/ B5Wait
    \/ B5PipelineDone
    \/ B5Operator
    \/ B5ChainEnd

PipeSpec == PipeInit /\ [][PipeNext]_vars

\* ================================================================ claims

OperatorLiterals == {<<"&", "&">>, <<"|", "|">>, <<"|">>}

IsOperator(element) == element.kind \in {"And", "Or"}

\* The command of `ran` executed at place i of the current Chain, if any.
RanAt(i) == {ran[k] : k \in {j \in 1..Len(ran) : ran[j].idx = i}}
Finished(i) == \E r \in RanAt(i) : r.how = "exit"
FinishedWith(i, ok) == \E r \in RanAt(i) : r.how = "exit" /\ success(r.status) = ok

\* Chain::run of block2 stands at, or has passed, the operator at place i,
\* which follows a command that ran and finished.
InChain == prog = "block2" /\ ci > 0
AfterFinished(i, op) == CurChain[i] = op /\ Finished(i - 1)

\* What must hold of an operator at place i on whose left the command
\* finished, `go` telling whether the operator lets the chain continue:
\* the process has not panicked; once the operator is evaluated, either the
\* loop was not left there and a command that follows, once the loop is past
\* it, has run; or the loop was left there and nothing behind the operator
\* has run.
ShortCircuit(i, go) ==
    /\ pc # "panicked" \/ pos # i - 1
    /\ pos >= i =>
         IF go
         THEN /\ brk # i
              /\ (pos > i /\ CurChain[i + 1].kind = "Cmd") => RanAt(i + 1) # {}
         ELSE /\ brk = i
              /\ pos = i
              /\ \A k \in 1..Len(ran) : ran[k].idx < i

\* C1: in block2, at an `&&` that follows a command that ran and finished,
\* success lets Chain::run go on to the command after the `&&`, and failure
\* ends the chain there: nothing behind the `&&` is executed.
C1_AndShortCircuit ==
    InChain =>
        \A i \in 2..Len(CurChain) :
            AfterFinished(i, And) => ShortCircuit(i, FinishedWith(i - 1, TRUE))

\* `ls && ls`, the first ls successful: both commands have run.
C1_Witness ==
    /\ InChain
    /\ Len(CurChain) = 3
    /\ CurChain[2] = And
    /\ FinishedWith(1, TRUE)
    /\ Finished(3)

\* C2: in block2, at an `||` that follows a command that ran and finished,
\* failure lets Chain::run go on to the command after the `||`, and success
\* ends the chain there: nothing behind the `||` is executed.
C2_OrShortCircuit ==
    InChain =>
        \A i \in 2..Len(CurChain) :
            AfterFinished(i, Or) => ShortCircuit(i, FinishedWith(i - 1, FALSE))

\* `ls || ls`, the first ls successful: the chain ended at the `||` and only
\* the first command has run.
C2_Witness ==
    /\ InChain
    /\ Len(CurChain) = 3
    /\ CurChain[2] = Or
    /\ FinishedWith(1, TRUE)
    /\ brk = 2
    /\ Len(ran) = 1

\* C3: the process never panics at an `&&` or `||` for want of a most-recent
\* outcome.
C3_NoPanicAtOperator ==
    ~(pc = "panicked" /\ panic \in {"no command before &&", "no command before ||"})

\* C4: every Chain the parser gives begins and ends with a Command and has
\* no two operators side by side.
C4_ChainWellFormed ==
    \A k \in 1..Len(pchains) :
        LET chain == pchains[k]
        IN  /\ chain[1].kind = "Cmd"
            /\ chain[Len(chain)].kind = "Cmd"
            /\ \A i \in 1..(Len(chain) - 1) : ~(IsOperator(chain[i]) /\ IsOperator(chain[i + 1]))

\* Neither the binary nor an argument is an operator literal.
NoOperatorIn(binary, args) ==
    /\ binary \notin OperatorLiterals
    /\ \A j \in 1..Len(args) : args[j] \notin OperatorLiterals

\* C5: no Command the parser gives has `&&`, `||` or `|` as its binary or
\* among its arguments.
C5_NoOperatorInCommand ==
    /\ \A k \in 1..Len(pchains) : \A i \in 1..Len(pchains[k]) :
          pchains[k][i].kind = "Cmd" => NoOperatorIn(pchains[k][i].binary, pchains[k][i].args)
    /\ \A k \in 1..Len(pcommands) : NoOperatorIn(pcommands[k].binary, pcommands[k].args)

\* The tokens an element, and a Chain, were parsed from.
ElementTokens(element) ==
    IF element = And THEN <<<<"&", "&">>>>
    ELSE IF element = Or THEN <<<<"|", "|">>>>
    ELSE <<element.binary>> \o element.args

RECURSIVE ChainTokens(_)
ChainTokens(chain) ==
    IF chain = <<>> THEN <<>> ELSE ElementTokens(Head(chain)) \o ChainTokens(Tail(chain))

HasToken(segment) == \E i \in 1..Len(segment) : segment[i] \notin Whitespace

\* C6: chains_from_line gives one Chain for each ';'-separated segment that
\* holds a token, in the order of the segments, each with at least one
\* element, and nothing for the other segments.
C6_OneChainPerSegment ==
    pstage = "chains" =>
        LET segments == SelectSeq(split(pline, ";"), HasToken)
        IN  /\ Len(pchains) = Len(segments)
            /\ \A k \in 1..Len(pchains) :
                  /\ pchains[k] # <<>>
                  /\ ChainTokens(pchains[k]) = split_whitespace(segments[k])

\* A line of three segments, the middle one empty, gives two Chains.
C6_Witness ==
    /\ pstage = "chains"
    /\ Len(split(pline, ";")) = 3
    /\ split(pline, ";")[2] = <<>>
    /\ Len(pchains) = 2

\* The shell is about to execute the builtin `binary` (main, block4).
AboutToRun(binary) ==
    \/ InCommands /\ CurCommand.binary = binary
    \/ InLoop /\ prog = "block4" /\ CurElement.kind = "Cmd" /\ CurElement.binary = binary

NextArgs == IF prog = "main" THEN CurCommand.args ELSE CurElement.args

\* The directory the path p names from directory dir, for the paths of the
\* vocabulary: the parent for `..`, the root for `/`, else the child p.
Resolved(dir, p) ==
    IF p = tok_up THEN (IF dir = Root THEN Root ELSE SubSeq(dir, 1, Len(dir) - 1))
    ELSE IF p = tok_root THEN Root
    ELSE Append(dir, p)

\* The rest of the line is still to be executed, the step just taken being
\* one more element of it.
GoesOn ==
    /\ pc' = "running"
    /\ pos' = pos + 1
    /\ brk' = 0
    /\ <<chains', ci', commands'>> = <<chains, ci, commands>>

\* C7: a cd to a path that names no directory leaves the working directory
\* as it was, reports an error, and the shell goes on with the line.
C7_FailedCdKeepsDir ==
    [][(AboutToRun(tok_cd) /\ Len(NextArgs) = 1 /\ Resolved(cwd, NextArgs[1]) \notin Dirs)
          => (cwd' = cwd /\ stderr' # "" /\ GoesOn)]_vars

\* `cd 1 ; ...` in block4: the cd has failed and a further Chain waits.
C7_Witness ==
    /\ prog = "block4"
    /\ pc = "running"
    /\ ci < Len(chains)
    /\ Len(ran) = 1
    /\ ran[1].binary = tok_cd
    /\ Len(ran[1].args) = 1
    /\ ran[1].how = "error"
    /\ stderr # ""
    /\ cwd = ran[1].dir

\* C8: cd with no argument or with more than one reports a usage error and
\* leaves the working directory as it was.
C8_CdUsageError ==
    [][(AboutToRun(tok_cd) /\ Len(NextArgs) # 1) => (cwd' = cwd /\ stderr' # "")]_vars

\* An external command is about to be executed (main, block2, block4).
AboutToRunExternal ==
    \/ InCommands /\ CurCommand.binary \notin {NoBinary, tok_cd, tok_exit}
    \/ InLoop /\ CurElement.kind = "Cmd"
         /\ (prog = "block2" \/ CurElement.binary \notin {tok_cd, tok_exit, tok_history})

\* C9: a cd to a path that names a directory makes it the working directory
\* (the old one resolved with the path, the path itself if absolute); the
\* commands executed run in the working directory, and it stays what it is
\* until a cd changes it.
C9_CdChangesDir ==
    [][/\ (AboutToRun(tok_cd) /\ Len(NextArgs) = 1 /\ Resolved(cwd, NextArgs[1]) \in Dirs)
            => (cwd' = Resolved(cwd, NextArgs[1]) /\ GoesOn)
       /\ (AboutToRunExternal /\ ran' # ran) => ran'[Len(ran')].dir = cwd
       /\ cwd' # cwd => AboutToRun(tok_cd)]_vars

\* `cd e; cd ..` in main: back in the directory the line started in.
C9_Witness ==
    /\ prog = "main"
    /\ Len(ran) = 2
    /\ ran[1].binary = tok_cd /\ ran[1].args = <<tok_e>> /\ ran[1].how = "ok"
    /\ ran[2].binary = tok_cd /\ ran[2].args = <<tok_up>> /\ ran[2].how = "ok"
    /\ ran[2].dir = Append(ran[1].dir, tok_e)
    /\ cwd = ran[1].dir

\* The status `exit` is to end the process with: its first argument when
\* that is an integer (`1` in the vocabulary), else 0.
ExpectedStatus(args) == IF args # <<>> /\ args[1] = tok_1 THEN 1 ELSE 0

\* C10: the process ended by `exit` has the status its first argument
\* gives, 0 when that is absent or no integer.
C10_ExitStatus ==
    pc = "exited" => exit_status = ExpectedStatus(NextArgs)

\* C11: once `exit` is executed nothing else is: executing `exit` ends the
\* process, and no step (no later element, Chain, read of a line or history
\* record) is taken by a process that has ended.
C11_NothingAfterExit ==
    [][/\ AboutToRun(tok_exit) => pc' = "exited"
       /\ pc # "exited"]_vars

\* `exit` has ended block4 with a Chain of the line still to run and input
\* still to read.
C11_Witness ==
    /\ pc = "exited"
    /\ prog = "block4"
    /\ ci < Len(chains)
    /\ nread < MaxLines

\* The records of the first n reads, in order.
Records(n) == [i \in 1..n |-> i]

\* The history log: the file the history path names when the shell starts.
HistoryLog == history[HistoryDir(history_path, InitialDir)]

\* C12: the history log holds exactly one record per input line read, in the
\* order the lines were received, and no record that is not of a line read.
C12_OneRecordPerLine ==
    (prog = "block4" /\ pc # "panicked") => HistoryLog = Records(nlines)

\* C13: `history` writes the whole log to standard output: every record
\* appended so far in the session, in order, that of the `history` line
\* itself included, whatever lines ran before.
C13_HistoryOutputsLog ==
    [][(InLoop /\ prog = "block4" /\ CurElement.kind = "Cmd"
           /\ CurElement.binary = tok_history)
         => stdout' = Records(nread)]_vars

\* The command at place i of the current Chain could not be spawned.
SpawnFailedAt(i) == \E r \in RanAt(i) : r.how = "nospawn"

\* C14: an external command that cannot be spawned is reported and counts
\* as a failed command: the shell goes on, an `&&` behind it leaves the
\* Chain, an `||` behind it goes on to the next command.
C14_SpawnFailureIsFailure ==
    [][/\ AboutToRunExternal => pc' = "running"
       /\ (ran' # ran /\ ran'[Len(ran')].how = "nospawn") => stderr' # ""
       /\ (InLoop /\ IsOperator(CurElement) /\ SpawnFailedAt(pos))
            => /\ pc' = "running"
               /\ pos' = pos + 1
               /\ brk' = IF CurElement = And THEN pos + 1 ELSE 0]_vars

\* C15: the shell process ends only by executing `exit`: no error of
\* parsing, of a builtin, of spawning or of writing the history ends it.
C15_EndsOnlyByExit ==
    /\ pc # "panicked"
    /\ pc = "exited" => AboutToRun(tok_exit)

\* A Chain with a leading, a trailing or two adjacent operators.
Malformed(chain) ==
    /\ chain # <<>>
    /\ \/ IsOperator(chain[1])
       \/ IsOperator(chain[Len(chain)])
       \/ \E i \in 1..(Len(chain) - 1) : IsOperator(chain[i]) /\ IsOperator(chain[i + 1])

\* C16: a malformed Chain of a line is an error of that Chain only: the
\* shell does not end in it, so the Chains behind it are still executed.
C16_MalformedChainOnly ==
    [][(pc = "running" /\ prog \in {"block2", "block4"} /\ Malformed(CurChain)
           /\ ci < Len(chains))
         => pc' # "panicked"]_vars

\* C19: once Cmd::run has executed a command (an external one was spawned
\* and has finished, or a builtin has returned), the outcome Chain::run
\* carries exists and holds the exit status of that command.
C19_OutcomeCarried ==
    [][(InLoop /\ CurElement.kind = "Cmd" /\ ran' # ran
           /\ ran'[Len(ran')].how # "nospawn")
         => /\ prev_output'.some
            /\ ran'[Len(ran')].how = "exit" => prev_output'.status = ran'[Len(ran')].status]_vars

\* C20: the parser loses, duplicates and reorders no token: the elements of
\* a Chain written out in order are the tokens of its segment, and no two
\* Commands are adjacent (a Command takes every token up to the next
\* operator or the end).
C20_ParserKeepsTokens ==
    pstage = "chains" =>
        LET segments == SelectSeq(split(pline, ";"), HasToken)
        IN  \A k \in 1..Len(pchains) :
              /\ k <= Len(segments)
              /\ ChainTokens(pchains[k]) = split_whitespace(segments[k])
              /\ \A i \in 1..(Len(pchains[k]) - 1) :
                    ~(pchains[k][i].kind = "Cmd" /\ pchains[k][i + 1].kind = "Cmd")

\* A line of three tokens was parsed into one Command with two arguments.
C20_Witness ==
    /\ pstage = "chains"
    /\ pchains = <<<<Cmd(<<"l">>, <<<<"l">>, <<"l">>>>)>>>>

\* The Chain of `echo hello | wc -c`.
EchoHelloWc == <<Cmd(tok_echo, <<tok_hello>>), Pipe, Cmd(tok_wc, <<tok_c>>)>>

C21_EndOfInputEndsLoop ==
    [][nread > nlines => (nread' = nread /\ history' = history)]_vars

\* The commands executed so far in the current Chain are the Commands at
\* the front of the Chain, in their order, each once and each one finished.
RanIsPrefix ==
    /\ \A k \in 1..Len(ran) :
          /\ ran[k].idx <= pos
          /\ CurChain[ran[k].idx].kind = "Cmd"
          /\ k > 1 => (ran[k - 1].idx < ran[k].idx /\ ran[k - 1].how # "nospawn")
    /\ \A i \in 1..pos :
          (CurChain[i].kind = "Cmd" /\ Len(ran) > 0 /\ i <= ran[Len(ran)].idx)
             => \E k \in 1..Len(ran) : ran[k].idx = i

\* C22: within a Chain the commands are executed left to right, each at
\* most once and one at a time, and a command is executed only when every
\* command before it in the Chain has been.
C22_LeftToRightPrefix ==
    [][(prog' \in {"block2", "block4"} /\ pc' = "running")
          => (RanIsPrefix' /\ Len(ran') <= Len(ran) + 1)]_vars

\* block2 has executed both commands of `ls && ls`, the first with success.
C22_Witness ==
    /\ prog = "block2"
    /\ pc = "running"
    /\ Len(CurChain) = 3
    /\ CurChain[2] = And
    /\ pos = 3
    /\ Len(ran) = 2
    /\ ran[1].idx = 1
    /\ ran[2].idx = 3

\* C23: a short-circuit abort ends its own Chain only: the shell goes on
\* with the next Chain of the line, or to the prompt for the next line, and
\* every Chain starts with no carried outcome.
C23_AbortConfinedToChain ==
    [][prog = "block2" =>
          /\ (pc = "running" /\ brk # 0) =>
                /\ brk' = 0
                /\ IF ci < Len(chains)
                   THEN pc' = "running" /\ chains' = chains /\ ci' = ci + 1
                   ELSE pc' = "prompt"
          /\ (pc' = "running" /\ pos' = 0) => prev_output' = NoOutput]_vars

\* block2 has left the first Chain of a line at its `&&`, with another Chain
\* of the line still to run.
C23_Witness ==
    /\ prog = "block2"
    /\ pc = "running"
    /\ brk # 0
    /\ CurChain[brk] = And
    /\ ci < Len(chains)
    /\ Len(chains[ci + 1]) > 0
    /\ chains[ci + 1][1].kind = "Cmd"

\* The shell is about to execute a `cd` that is invoked as it should be,
\* with exactly one argument, and whose argument names a directory.
SuccessfulCd ==
    /\ AboutToRun(tok_cd)
    /\ Len(NextArgs) = 1
    /\ Resolved(cwd, NextArgs[1]) \in Dirs

\* C24: only a successful `cd` changes the working directory of the shell:
\* an external command, `history`, a failed or mis-invoked `cd`, an operator
\* and the reading of a line leave it as it is.
C24_OnlyCdChangesDir ==
    [][cwd' # cwd => SuccessfulCd]_vars

====
